---- MODULE Spec2Model ----
(***************************************************************************)
(* The medication reminder backend: the cron-driven medication check of   *)
(* services/notificationService.js (scheduleMedicationChecks and           *)
(* sendPushNotification), the Medication and User documents it reads, and  *)
(* the routes of routes/medicationRoutes.js that create, read, update and  *)
(* delete Medications and set an entry's taken flag.                       *)
(*                                                                         *)
(* A tick is one run of the async cron callback.  It is cut at its awaits: *)
(* the Medication.find query, and each expo.sendPushNotificationsAsync     *)
(* call.  node-cron fires the callback without waiting for the promise of  *)
(* an earlier run, and the callback reads the clock itself (new Date()),   *)
(* so runs may overlap and two runs may read the same HH:MM.               *)
(***************************************************************************)
EXTENDS Integers, Sequences, FiniteSets, TLC

\* ------------------------------------------------------------- bounds
MaxTicks == 2
MaxDay == 2
MaxPatches == 1
MaxRequests == 2

\* ------------------------------------------------------------- values
null == "<null>"

UserIds == {"u1", "u2"}
MedIds == {"m1", "m2"}
\* The order in which Medication.find returns documents (collection order).
MedOrder == <<"m1", "m2">>

ClockHours == {8, 9}
ClockMinutes == {0}

\* Tokens a User document can hold: the schema default, a blank token
\* (update-push-token takes "  ", which the schema trims), a non-Expo
\* string, and an Expo push token.
Tokens == {null, "", "bad-token", "ExponentPushToken[aaa]"}

\* Sound preferences a User document can hold: none (a document stored
\* under the earlier schema, which has no notificationSound), the empty
\* string, the schema default, a differently cased "default", a file name.
Sounds == {null, "", "default", "Default", "chime.mp3"}

\* The time of an entry of a request: missing, with a one-digit hour,
\* zero-padded, or past the last hour.
RequestTimes == {null, "8:00", "08:00", "24:00"}

Ticks == 1..MaxTicks

VARIABLES
    users,          \* User documents: [exists, expoPushToken, notificationSound]
    meds,           \* Medication documents: [user, name, amount, precautions,
                    \*   schedules]; NoMedication where there is none
    clockDay,       \* the server clock as last read: calendar day,
    clockHour,      \*   local hour,
    clockMinute,    \*   local minute
    tick,           \* per run of the cron callback: its position and locals
    alive,          \* the host process has not died of an unhandled rejection
    notifierCalls,  \* invocations of sendPushNotification
    transportCalls, \* invocations of expo.sendPushNotificationsAsync
    outcomes,       \* what each sendPushNotification call returned
    warnings,       \* console.warn of the "no push token" branch
    wasUntaken,     \* ids of the entries that were untaken at some moment
    patches,        \* the number of PATCH requests served
    requests,       \* the number of other /api/medications requests served
    request,        \* the last request served: [op, caller, id, body]
    response        \* its response: [status, body]

vars == <<users, meds, clockDay, clockHour, clockMinute, tick, alive,
          notifierCalls, transportCalls, outcomes, warnings, wasUntaken,
          patches, requests, request, response>>

store == <<users, meds>>
logs == <<notifierCalls, transportCalls, outcomes, warnings>>
clock == <<clockDay, clockHour, clockMinute>>
http == <<requests, request, response>>

\* ------------------------------------------------------------ helpers
\* JavaScript truthiness of a string-or-null value.
Truthy(v) == v # null /\ v # ""

\* String(n).padStart(2, '0')
padStart2(n) == IF n < 10 THEN "0" \o ToString(n) ELSE ToString(n)

\* `${String(now.getHours()).padStart(2,'0')}:${String(now.getMinutes()).padStart(2,'0')}`
FormatTime(h, m) == padStart2(h) \o ":" \o padStart2(m)

ClockTimes == {FormatTime(h, m) : h \in ClockHours, m \in ClockMinutes}

\* Expo.isExpoPushToken
isExpoPushToken(token) == token \in {"ExponentPushToken[aaa]", "ExpoPushToken[bbb]"}

\* A schedule subdocument.
Entry(id, time, taken) == [id |-> id, time |-> time, taken |-> taken]

\* The schedules arrays of up to max entries a Medication can be created
\* with: POST stores the request's array, taken flags included.
ScheduleSeqs(m, max) ==
    UNION {
        {[i \in 1..n |-> Entry(<<m, i>>, tm[i], tk[i])] :
            tm \in [1..n -> ClockTimes], tk \in [1..n -> BOOLEAN]}
        : n \in 1..max}

\* The slot of MedOrder that holds no Medication document.
NoMedication == [user |-> null, name |-> null, amount |-> null,
                 precautions |-> null, schedules |-> <<>>]

\* A medicationId of a request that is no ObjectId: findById rejects with
\* a CastError of kind 'ObjectId'.
BadId == "bad-id"

\* JSON values of a request body.  A field that is not given is null.
Bool(b) == [type |-> "boolean", bool |-> b]
NotBoolean == [type |-> "string", bool |-> FALSE]
NotGiven == [kind |-> "undefined", items |-> <<>>]
NotArray == [kind |-> "string", items |-> <<>>]
Array(items) == [kind |-> "array", items |-> items]

\* Array.isArray(schedules), for schedules that is given
isArray(schedules) == schedules.kind = "array"

\* The strings /^([0-1]?[0-9]|2[0-3]):[0-5][0-9]$/ matches.
HourTexts ==
    {ToString(d) : d \in 0..9}
    \cup {ToString(a) \o ToString(d) : a \in 0..1, d \in 0..9}
    \cup {"2" \o ToString(d) : d \in 0..3}
MinuteTexts == {ToString(a) \o ToString(d) : a \in 0..5, d \in 0..9}
TimePattern == {h \o ":" \o m : h \in HourTexts, m \in MinuteTexts}

\* Mutant: the hour alternative 2[0-3] reads 2[0-4].
TimePatternTestLoose(time) == time \in TimePattern \cup {"24:00"}

\* /^([0-1]?[0-9]|2[0-3]):[0-5][0-9]$/.test(time)
TimePatternTest(time) == time \in TimePattern

\* schedules.some(s => !s.time || !pattern.test(s.time))
SomeInvalidTime(items) ==
    \E i \in 1..Len(items) :
        ~Truthy(items[i].time) \/ ~TimePatternTest(items[i].time)

\* The subdocuments Mongoose makes of a request's schedules array for
\* Medication m: each gets an _id, and taken its default.
Subdocuments(m, items) ==
    [i \in 1..Len(items) |-> Entry(<<m, i>>, items[i].time, FALSE)]

\* Mutant: every authenticated user passes for the owner.
IsAnyUser(medication, caller) == TRUE

\* medication.user.toString() === req.user._id.toString()
IsOwner(medication, caller) == medication.user = caller

\* The _id a new Medication document gets: an unused one.
NewId == CHOOSE i \in 1..Len(MedOrder) :
            /\ meds[MedOrder[i]] = NoMedication
            /\ \A j \in 1..(i - 1) : meds[MedOrder[j]] # NoMedication

\* res.status(status).json(...): documents is what the body holds of the
\* store, as pairs of _id and document; an error body holds none.
Respond(status, documents) == response' = [status |-> status, body |-> documents]

\* The ids of the untaken entries of a schedules array.
UntakenIds(schedules) ==
    {schedules[i].id : i \in {j \in 1..Len(schedules) : ~schedules[j].taken}}

\* Every schedule subdocument of a store.
AllEntries(ms) ==
    UNION {{ms[m].schedules[i] : i \in 1..Len(ms[m].schedules)} : m \in MedIds}

\* Mutant: the query leaves out the Medications that already have a
\* Notifier invocation for currentTime.
MedicationFindUnnotified(currentTime) ==
    LET Matches(m) ==
            /\ \E i \in 1..Len(meds[m].schedules) :
                  meds[m].schedules[i].time = currentTime
            /\ ~\E c \in notifierCalls : c.med = m /\ c.scheduleTime = currentTime
        Populate(m) == [id |-> m,
                        user |-> users[meds[m].user],
                        schedules |-> meds[m].schedules]
        ids == SelectSeq(MedOrder, Matches)
    IN [i \in 1..Len(ids) |-> Populate(ids[i])]

\* Medication.find({'schedules.time': currentTime}).populate('user'):
\* the documents with at least one entry at currentTime, in collection
\* order, each with its user field replaced by the User document.
MedicationFind(currentTime) ==
    LET Matches(m) == \E i \in 1..Len(meds[m].schedules) :
                         meds[m].schedules[i].time = currentTime
        Populate(m) == [id |-> m,
                        user |-> users[meds[m].user],
                        schedules |-> meds[m].schedules]
        ids == SelectSeq(MedOrder, Matches)
    IN [i \in 1..Len(ids) |-> Populate(ids[i])]

\* Mutant: the test for a push token is dropped (med.user alone).
HasUserOnly(med) == med.user.exists

\* med.user && med.user.expoPushToken
HasPushToken(med) == med.user.exists /\ Truthy(med.user.expoPushToken)

\* Mutant: the warning branch does not test med.user.
WarnWithoutUserGuard(med) == ~Truthy(med.user.expoPushToken)

\* med.user && !med.user.expoPushToken
WarnNoPushToken(med) == med.user.exists /\ ~Truthy(med.user.expoPushToken)

\* Mutant: the entry is looked up by its flag alone (the first untaken
\* entry), whatever its time.
dueScheduleEntryAnyTime(med, currentTime) ==
    LET hits == {i \in 1..Len(med.schedules) : ~med.schedules[i].taken}
    IN IF hits = {} THEN 0
       ELSE CHOOSE i \in hits : \A j \in hits : i <= j

\* med.schedules.find(s => s.time === currentTime): the index of the first
\* entry at currentTime, 0 for undefined.
dueScheduleEntry(med, currentTime) ==
    LET hits == {i \in 1..Len(med.schedules) : med.schedules[i].time = currentTime}
    IN IF hits = {} THEN 0
       ELSE CHOOSE i \in hits : \A j \in hits : i <= j

\* Mutant: the taken flag of the entry found is not looked at.
ShouldSendIgnoringTaken(med, currentTime) ==
    dueScheduleEntry(med, currentTime) # 0

\* dueScheduleEntry && !dueScheduleEntry.taken
ShouldSend(med, currentTime) ==
    LET k == dueScheduleEntry(med, currentTime)
    IN k # 0 /\ ~med.schedules[k].taken

\* med.user.notificationSound || 'default'
userSoundPreference(med) ==
    IF Truthy(med.user.notificationSound) THEN med.user.notificationSound
    ELSE "default"

\* String.prototype.trim and toLowerCase, on the sound names of the model.
trim(str) == IF str = " " THEN "" ELSE str
toLowerCase(str) == IF str = "Default" THEN "default" ELSE str

\* Mutant: the preference is put in the message as it is given.
soundToPlayAsGiven(userPreferredSound) == userPreferredSound

\* The sound sendPushNotification puts in the message.
soundToPlay(userPreferredSound) ==
    IF /\ Truthy(userPreferredSound)
       /\ trim(userPreferredSound) # ""
       /\ toLowerCase(userPreferredSound) # "default"
    THEN userPreferredSound
    ELSE "default"

\* Mutant: the recipient is read from the first Medication of the result.
NotifierCallToFirstUser(t, tk, i) ==
    LET med == tk.medicationsDue[i]
        k == dueScheduleEntry(med, tk.currentTime)
    IN [tick |-> t, med |-> med.id, entry |-> med.schedules[k].id,
        day |-> tk.day, to |-> tk.medicationsDue[1].user.expoPushToken,
        scheduleTime |-> tk.currentTime,
        sound |-> userSoundPreference(med)]

\* One sendPushNotification invocation made by tick t for the medication
\* at position i of its result list.
NotifierCall(t, tk, i) ==
    LET med == tk.medicationsDue[i]
        k == dueScheduleEntry(med, tk.currentTime)
    IN [tick |-> t, med |-> med.id, entry |-> med.schedules[k].id,
        day |-> tk.day, to |-> med.user.expoPushToken,
        scheduleTime |-> tk.currentTime,
        sound |-> userSoundPreference(med)]

\* The message handed to expo.sendPushNotificationsAsync for a call.
Message(call) ==
    [tick |-> call.tick, med |-> call.med, to |-> call.to,
     sound |-> soundToPlay(call.sound),
     data |-> [medicationId |-> call.med, scheduleTime |-> call.scheduleTime,
               type |-> "medicationReminder"]]

\* What sendPushNotification returns for each result: the tickets array,
\* or null.
Returned(result) ==
    IF result \in {"ticket", "error-ticket"} THEN "tickets" ELSE null

\* How a sendPushNotification call of tick t for Medication m ended.
Outcome(t, m, result) ==
    [tick |-> t, med |-> m, result |-> result, returned |-> Returned(result)]

IdleTick == [pc |-> "idle", day |-> 0, currentTime |-> "", medicationsDue |-> <<>>,
             idx |-> 0, findFailed |-> FALSE]

\* Mutant: the token is not validated before the transport is called.
sendPushNotificationUnchecked(call, acc) ==
    [acc EXCEPT !.pc = "send", !.transportCalls = @ \cup {Message(call)}]

\* sendPushNotification(call.to, ...) up to its await of the transport: a
\* token that is no Expo push token is logged and null is returned; else
\* the message is handed to expo.sendPushNotificationsAsync.
sendPushNotification(call, acc) ==
    IF ~isExpoPushToken(call.to)
    THEN [acc EXCEPT !.pc = "loop",
                     !.outcomes = @ \cup {Outcome(call.tick, call.med, "invalid-token")}]
    ELSE [acc EXCEPT !.pc = "send",
                     !.transportCalls = @ \cup {Message(call)}]

\* The synchronous stretch of the for-loop of tick t (locals tk) from
\* position i up to its next await of the transport, or to the end of the
\* list.  acc holds the tick's pc and idx and the logs as they grow.
RECURSIVE RunLoop(_, _, _, _)
RunLoop(t, tk, i, acc) ==
    LET list == tk.medicationsDue
    IN IF i > Len(list) THEN [acc EXCEPT !.pc = "done", !.idx = i]
       ELSE LET med == list[i] IN
            IF HasPushToken(med) THEN
                IF ShouldSend(med, tk.currentTime) THEN
                    LET call == NotifierCall(t, tk, i)
                        r == sendPushNotification(call,
                                [acc EXCEPT !.notifierCalls = @ \cup {call}])
                    IN IF r.pc = "send" THEN [r EXCEPT !.idx = i]
                       ELSE RunLoop(t, tk, i + 1, r)
                ELSE RunLoop(t, tk, i + 1, acc)
            ELSE IF WarnNoPushToken(med)
                 THEN RunLoop(t, tk, i + 1,
                          [acc EXCEPT !.warnings = @ \cup {<<t, med.id>>}])
                 ELSE RunLoop(t, tk, i + 1, acc)

Acc == [pc |-> "loop", idx |-> 0, notifierCalls |-> notifierCalls,
        transportCalls |-> transportCalls, outcomes |-> outcomes,
        warnings |-> warnings]

\* Mutant: a run clears every stored token that is no Expo push token.
TickClearsStaleTokens ==
    /\ users' = [u \in UserIds |->
                    IF Truthy(users[u].expoPushToken)
                       /\ ~isExpoPushToken(users[u].expoPushToken)
                    THEN [users[u] EXCEPT !.expoPushToken = null]
                    ELSE users[u]]
    /\ meds' = meds

\* What a run of the callback writes to the Medication and User
\* collections: it calls neither save nor update, so nothing.
TickStoreEffect == UNCHANGED <<users, meds>>

\* Store the result of a stretch of the loop.
Commit(t, tk, r) ==
    /\ tick' = [tick EXCEPT ![t] = [tk EXCEPT !.pc = r.pc, !.idx = r.idx]]
    /\ notifierCalls' = r.notifierCalls
    /\ transportCalls' = r.transportCalls
    /\ outcomes' = r.outcomes
    /\ warnings' = r.warnings

\* No request has been served yet.
NoBody == [name |-> null, amount |-> null, precautions |-> null,
           schedules |-> NotGiven, scheduleId |-> <<>>, taken |-> NotBoolean]
NoRequest == [op |-> null, caller |-> null, id |-> null, body |-> NoBody]
NoResponse == [status |-> 0, body |-> {}]

\* --------------------------------------------------------------- Init
\* The scheduler as scheduleMedicationChecks leaves it, over a given store:
\* no run of the callback has started.
InitFrom(us, ms) ==
    /\ users = us
    /\ meds = ms
    /\ clockDay = 1
    /\ clockHour = 8
    /\ clockMinute = 0
    /\ tick = [t \in Ticks |-> IdleTick]
    /\ alive = TRUE
    /\ notifierCalls = {}
    /\ transportCalls = {}
    /\ outcomes = {}
    /\ warnings = {}
    /\ wasUntaken = {e.id : e \in {x \in AllEntries(ms) : ~x.taken}}
    /\ patches = 0
    /\ requests = 0
    /\ request = NoRequest
    /\ response = NoResponse

\* Two users with one Medication each: u1 with any token and any array of
\* one or two entries, u2 with an Expo token and one untaken entry at 08:00.
StoreOf(token, s1) ==
    <<[u \in UserIds |->
          [exists |-> TRUE,
           expoPushToken |-> IF u = "u1" THEN token ELSE "ExpoPushToken[bbb]",
           notificationSound |-> "default"]],
      [m \in MedIds |->
          IF m = "m1"
          THEN [user |-> "u1", name |-> "Aspirin", amount |-> "500mg",
                precautions |-> null, schedules |-> s1]
          ELSE [user |-> "u2", name |-> "Aspirin", amount |-> "500mg",
                precautions |-> null,
                schedules |-> <<Entry(<<"m2", 1>>, FormatTime(8, 0), FALSE)>>]]>>

Init ==
    \E token \in Tokens, s1 \in ScheduleSeqs("m1", 2) :
        InitFrom(StoreOf(token, s1)[1], StoreOf(token, s1)[2])

\* The store the runs with PATCH requests start from: u1 holds a token
\* that is no Expo push token, and its Medication a taken entry at 08:00
\* and an untaken one at 09:00.
InitPatch ==
    LET s1 == <<Entry(<<"m1", 1>>, FormatTime(8, 0), TRUE),
                Entry(<<"m1", 2>>, FormatTime(9, 0), FALSE)>>
    IN InitFrom(StoreOf("bad-token", s1)[1], StoreOf("bad-token", s1)[2])

\* What populate leaves in med.user when the User document is gone: null.
NoUser == [exists |-> FALSE, expoPushToken |-> null, notificationSound |-> null]

\* The User documents u1 can be in the runs over users: deleted, or with
\* an Expo token and any sound preference.
UserDocs ==
    {NoUser} \cup {[exists |-> TRUE, expoPushToken |-> "ExponentPushToken[aaa]",
                    notificationSound |-> snd] : snd \in Sounds}

\* The stores of the runs over users: u1 as any of UserDocs with a
\* Medication of one entry, u2 and its Medication as in StoreOf.
InitUsers ==
    \E doc \in UserDocs, s1 \in ScheduleSeqs("m1", 1) :
        InitFrom([StoreOf(null, s1)[1] EXCEPT !["u1"] = doc], StoreOf(null, s1)[2])

\* The stores of the runs over requests: u1 and its Medication with an
\* untaken entry at 08:00, u2 with its Medication or with none yet.
InitCrud ==
    LET s1 == <<Entry(<<"m1", 1>>, FormatTime(8, 0), FALSE)>>
        st == StoreOf("ExponentPushToken[aaa]", s1)
    IN \E m2 \in {NoMedication, st[2]["m2"]} :
          InitFrom(st[1], [st[2] EXCEPT !["m2"] = m2])

\* The stores of the runs over accepted times: the Medication of u1 is
\* what POST stores for a one-entry array whose time passes its test.
InitTimes ==
    \E time \in {x \in RequestTimes : Truthy(x) /\ TimePatternTest(x)} :
        LET s1 == Subdocuments("m1", <<[time |-> time]>>)
            st == StoreOf("ExponentPushToken[aaa]", s1)
        IN InitFrom(st[1], st[2])

\* The store of the runs with PATCH requests of u2: both users hold an
\* Expo token and both Medications an untaken entry at 08:00.
InitRace ==
    LET s1 == <<Entry(<<"m1", 1>>, FormatTime(8, 0), FALSE)>>
        st == StoreOf("ExponentPushToken[aaa]", s1)
    IN InitFrom(st[1], st[2])

\* ------------------------------------------------------------ actions
\* node-cron fires the callback at some moment not before the last reading
\* of the clock (day d, h:m): the run reads the clock, computes currentTime
\* and issues the query.
TickStart(t, d, h, m) ==
    /\ alive
    /\ tick[t].pc = "idle"
    /\ t > 1 => tick[t - 1].pc # "idle"
    /\ \/ d = clockDay /\ (h > clockHour \/ (h = clockHour /\ m >= clockMinute))
       \/ d > clockDay
    /\ clockDay' = d
    /\ clockHour' = h
    /\ clockMinute' = m
    /\ tick' = [tick EXCEPT ![t] = [@ EXCEPT !.pc = "find", !.day = d,
                                             !.currentTime = FormatTime(h, m)]]
    /\ TickStoreEffect
    /\ UNCHANGED <<alive, logs, wasUntaken, patches, http>>

\* The query resolves: the loop runs up to its first await of the transport.
FindResolves(t) ==
    /\ alive
    /\ tick[t].pc = "find"
    /\ LET tk == [tick[t] EXCEPT !.medicationsDue = MedicationFind(tick[t].currentTime)]
           r == RunLoop(t, tk, 1, Acc)
       IN Commit(t, tk, r)
    /\ TickStoreEffect
    /\ UNCHANGED <<clock, alive, wasUntaken, patches, http>>

\* Mutant: the rejection is not caught; the unhandled rejection ends the
\* process.
FindRejectsUncaught(t) ==
    /\ tick[t].pc = "find"
    /\ alive
    /\ alive' = FALSE
    /\ tick' = [tick EXCEPT ![t] = [@ EXCEPT !.findFailed = TRUE]]
    /\ UNCHANGED <<store, clock, logs, wasUntaken, patches, http>>

\* The query rejects: the catch block logs, and the run ends.
FindRejects(t) ==
    /\ alive
    /\ tick[t].pc = "find"
    /\ tick' = [tick EXCEPT ![t] = [@ EXCEPT !.pc = "done", !.findFailed = TRUE]]
    /\ TickStoreEffect
    /\ UNCHANGED <<clock, alive, logs, wasUntaken, patches, http>>

\* How sendPushNotification ends for each way the transport call ends: it
\* returns the tickets (an error ticket is logged), or catches the error
\* and returns null.  The result is what the awaiting loop gets back.
TransportResults == {"ticket", "error-ticket", "transport-error"}

\* expo.sendPushNotificationsAsync settles; sendPushNotification returns
\* and the loop goes on to its next await.
SendSettles(t) ==
    /\ alive
    /\ tick[t].pc = "send"
    /\ \E result \in TransportResults :
          LET tk == tick[t]
              med == tk.medicationsDue[tk.idx]
              acc == [Acc EXCEPT !.outcomes = @ \cup {Outcome(t, med.id, result)}]
          IN Commit(t, tk, RunLoop(t, tk, tk.idx + 1, acc))
    /\ TickStoreEffect
    /\ UNCHANGED <<clock, alive, wasUntaken, patches, http>>

\* The routes of medicationRoutes.js, each behind protect: caller is the
\* authenticated user.  A handler is taken as one step, from its query to
\* its save.

\* The body of a POST or PUT request.
Body(name, amount, precautions, schedules) ==
    [NoBody EXCEPT !.name = name, !.amount = amount,
                   !.precautions = precautions, !.schedules = schedules]

\* POST /api/medications
CreateMedication(caller, body) ==
    /\ alive
    /\ requests < MaxRequests
    /\ requests' = requests + 1
    /\ request' = [op |-> "POST", caller |-> caller, id |-> null, body |-> body]
    /\ IF \/ ~Truthy(body.name)
          \/ ~Truthy(body.amount)
          \/ body.schedules = NotGiven
          \/ ~isArray(body.schedules)
       THEN Respond(400, {}) /\ UNCHANGED <<meds, wasUntaken>>
       ELSE IF SomeInvalidTime(body.schedules.items)
       THEN Respond(400, {}) /\ UNCHANGED <<meds, wasUntaken>>
       ELSE /\ \E m \in MedIds : meds[m] = NoMedication
            /\ LET id == MedOrder[NewId]
                   medication ==
                       [user |-> caller, name |-> body.name, amount |-> body.amount,
                        precautions |-> body.precautions,
                        schedules |-> Subdocuments(id, body.schedules.items)]
               IN /\ meds' = [meds EXCEPT ![id] = medication]
                  /\ wasUntaken' = wasUntaken \cup UntakenIds(medication.schedules)
                  /\ Respond(201, {<<id, medication>>})
    /\ UNCHANGED <<users, clock, tick, alive, logs, patches>>

\* GET /api/medications: the caller's Medications.  The body is held as
\* a set; the order of the list (createdAt, newest first) is left out.
ListMedications(caller) ==
    /\ alive
    /\ requests < MaxRequests
    /\ requests' = requests + 1
    /\ request' = [op |-> "LIST", caller |-> caller, id |-> null, body |-> NoBody]
    /\ Respond(200, {<<m, meds[m]>> : m \in {x \in MedIds : meds[x].user = caller}})
    /\ UNCHANGED <<store, clock, tick, alive, logs, wasUntaken, patches>>

\* GET /api/medications/:id
GetMedication(caller, id) ==
    /\ alive
    /\ requests < MaxRequests
    /\ requests' = requests + 1
    /\ request' = [op |-> "GET", caller |-> caller, id |-> id, body |-> NoBody]
    /\ IF id = BadId THEN Respond(404, {})
       ELSE IF meds[id] # NoMedication /\ IsOwner(meds[id], caller)
       THEN Respond(200, {<<id, meds[id]>>})
       ELSE IF meds[id] = NoMedication THEN Respond(404, {})
       ELSE Respond(401, {})
    /\ UNCHANGED <<store, clock, tick, alive, logs, wasUntaken, patches>>

\* Mutant: the document is saved before its schedules are validated.
RejectedUpdateSaved(stored, medication) == medication

\* What the store holds of the Medication after the 400 of line 105: the
\* handler has changed its own copy (medication) and returns before
\* medication.save(), so the stored document.
RejectedUpdate(stored, medication) == stored

\* PUT /api/medications/:id
UpdateMedication(caller, id, body) ==
    /\ alive
    /\ requests < MaxRequests
    /\ requests' = requests + 1
    /\ request' = [op |-> "PUT", caller |-> caller, id |-> id, body |-> body]
    /\ IF id = BadId THEN Respond(404, {}) /\ UNCHANGED <<meds, wasUntaken>>
       ELSE IF meds[id] # NoMedication /\ IsOwner(meds[id], caller)
       THEN LET medication ==
                    [meds[id] EXCEPT
                        !.name = IF Truthy(body.name) THEN body.name ELSE @,
                        !.amount = IF Truthy(body.amount) THEN body.amount ELSE @,
                        !.precautions = IF body.precautions # null
                                        THEN body.precautions ELSE @]
            IN IF body.schedules # NotGiven /\ isArray(body.schedules)
               THEN IF SomeInvalidTime(body.schedules.items)
                    THEN /\ meds' = [meds EXCEPT
                                        ![id] = RejectedUpdate(meds[id], medication)]
                         /\ Respond(400, {})
                         /\ UNCHANGED wasUntaken
                    ELSE LET updated ==
                                 [medication EXCEPT
                                     !.schedules = Subdocuments(id, body.schedules.items)]
                         IN /\ meds' = [meds EXCEPT ![id] = updated]
                            /\ wasUntaken' = wasUntaken \cup UntakenIds(updated.schedules)
                            /\ Respond(200, {<<id, updated>>})
               ELSE /\ meds' = [meds EXCEPT ![id] = medication]
                    /\ Respond(200, {<<id, medication>>})
                    /\ UNCHANGED wasUntaken
       ELSE IF meds[id] = NoMedication
       THEN Respond(404, {}) /\ UNCHANGED <<meds, wasUntaken>>
       ELSE Respond(401, {}) /\ UNCHANGED <<meds, wasUntaken>>
    /\ UNCHANGED <<users, clock, tick, alive, logs, patches>>

\* DELETE /api/medications/:id
DeleteMedication(caller, id) ==
    /\ alive
    /\ requests < MaxRequests
    /\ requests' = requests + 1
    /\ request' = [op |-> "DELETE", caller |-> caller, id |-> id, body |-> NoBody]
    /\ IF id = BadId THEN Respond(404, {}) /\ UNCHANGED meds
       ELSE IF meds[id] # NoMedication /\ IsOwner(meds[id], caller)
       THEN meds' = [meds EXCEPT ![id] = NoMedication] /\ Respond(200, {})
       ELSE IF meds[id] = NoMedication
       THEN Respond(404, {}) /\ UNCHANGED meds
       ELSE Respond(401, {}) /\ UNCHANGED meds
    /\ UNCHANGED <<users, clock, tick, alive, logs, wasUntaken, patches>>

\* Mutant: the flag is set on every entry of the Medication.
SetTakenOnAll(schedules, k, taken) ==
    [i \in 1..Len(schedules) |-> [schedules[i] EXCEPT !.taken = taken]]

\* schedule.taken = taken, for the subdocument at position k
SetTaken(schedules, k, taken) == [schedules EXCEPT ![k].taken = taken]

\* PATCH /api/medications/:medicationId/schedules/:scheduleId with body
\* { taken }: a taken that is no boolean gets 400; a Medication that is
\* not the caller's, or an unknown id, 404; else the entry with that id
\* gets the flag and the document is saved.
PatchSchedule(caller, medicationId, scheduleId, taken) ==
    /\ alive
    /\ patches < MaxPatches
    /\ patches' = patches + 1
    /\ request' = [op |-> "PATCH", caller |-> caller, id |-> medicationId,
                   body |-> [NoBody EXCEPT !.scheduleId = scheduleId,
                                           !.taken = taken]]
    /\ IF taken.type # "boolean"
       THEN Respond(400, {}) /\ UNCHANGED <<meds, wasUntaken>>
       ELSE IF medicationId = BadId
       THEN Respond(404, {}) /\ UNCHANGED <<meds, wasUntaken>>
       ELSE IF meds[medicationId] = NoMedication \/ meds[medicationId].user # caller
       THEN Respond(404, {}) /\ UNCHANGED <<meds, wasUntaken>>
       ELSE LET schedules == meds[medicationId].schedules
                hits == {k \in 1..Len(schedules) : schedules[k].id = scheduleId}
            IN IF hits = {}
               THEN Respond(404, {}) /\ UNCHANGED <<meds, wasUntaken>>
               ELSE LET k == CHOOSE h \in hits : TRUE
                        medication ==
                            [meds[medicationId] EXCEPT
                                !.schedules = SetTaken(@, k, taken.bool)]
                    IN /\ meds' = [meds EXCEPT ![medicationId] = medication]
                       /\ wasUntaken' = IF taken.bool THEN wasUntaken
                                        ELSE wasUntaken \cup {scheduleId}
                       /\ Respond(200, {<<medicationId, medication>>})
    /\ UNCHANGED <<users, clock, tick, alive, logs, requests>>

Next ==
    \/ \E t \in Ticks, d \in 1..MaxDay, h \in ClockHours, m \in ClockMinutes :
          TickStart(t, d, h, m)
    \/ \E t \in Ticks : FindResolves(t)
    \/ \E t \in Ticks : FindRejects(t)
    \/ \E t \in Ticks : SendSettles(t)

Spec == Init /\ [][Next]_vars

\* The request bodies of the runs over requests.  An array has no entry,
\* one entry, or an entry at 08:00 and a second one; name, amount and
\* precautions are given or not.
RequestItems ==
    {items \in UNION {[1..n -> [time : RequestTimes]] : n \in 0..2} :
        Len(items) = 2 => items[1].time = "08:00"}
RequestSchedules == {NotGiven, NotArray} \cup {Array(items) : items \in RequestItems}
RequestDetails ==
    {<<null, null, null>>, <<"Ibuprofen", "200mg", "with food">>}
Bodies ==
    {Body(d[1], d[2], d[3], schedules) :
        d \in RequestDetails, schedules \in RequestSchedules}
RequestIds == MedIds \cup {BadId}

\* The runs over requests serve MaxRequests requests in all.
Budget == requests + patches < MaxRequests

\* The routes of /api/medications, called by either user.
NextCrud ==
    \/ Budget /\ \E caller \in UserIds, body \in Bodies :
                    CreateMedication(caller, body)
    \/ Budget /\ \E caller \in UserIds : ListMedications(caller)
    \/ Budget /\ \E caller \in UserIds, id \in RequestIds :
                    GetMedication(caller, id)
    \/ Budget /\ \E caller \in UserIds, id \in RequestIds, body \in Bodies :
                    UpdateMedication(caller, id, body)
    \/ Budget /\ \E caller \in UserIds, id \in RequestIds :
                    DeleteMedication(caller, id)
    \/ Budget /\ \E caller \in UserIds, id \in RequestIds, i \in 1..2 :
                    \E taken \in {Bool(TRUE), Bool(FALSE), NotBoolean} :
                        PatchSchedule(caller, id, <<id, i>>, taken)

SpecCrud == InitCrud /\ [][NextCrud]_vars

\* The scheduler over the stores of InitTimes.
SpecTimes == InitTimes /\ [][Next]_vars

\* The scheduler beside PATCH requests of user u2 for the entry of its
\* Medication, which is the second of a query result.
NextRace ==
    \/ Next
    \/ \E taken \in BOOLEAN : PatchSchedule("u2", "m2", <<"m2", 1>>, Bool(taken))

SpecRace == InitRace /\ [][NextRace]_vars

\* The scheduler over the stores of InitUsers.
SpecUsers == InitUsers /\ [][Next]_vars

\* The scheduler beside PATCH requests of user u1 for the entries of its
\* Medication.
NextPatch ==
    \/ Next
    \/ \E caller \in {"u1"}, m \in {"m1"}, i \in 1..2, taken \in BOOLEAN :
          PatchSchedule(caller, m, <<m, i>>, Bool(taken))

SpecPatch == InitPatch /\ [][NextPatch]_vars

\* ------------------------------------------------------------- claims
\* The tick has its query result: the loop is at an await or finished.
Evaluated(t) == tick[t].pc \in {"send", "done"} /\ ~tick[t].findFailed

\* The tick ran to its end with a successful query.
Finished(t) == tick[t].pc = "done" /\ ~tick[t].findFailed

\* Entry k of a populated Medication is due at time: it is at that time and
\* not taken.
DueAt(med, k, time) == med.schedules[k].time = time /\ ~med.schedules[k].taken

\* Entry k is the first entry of the Medication at that time.
FirstAt(med, k, time) ==
    /\ med.schedules[k].time = time
    /\ \A j \in 1..(k - 1) : med.schedules[j].time # time

\* Some Notifier invocation of tick t is for the entry.
CallFor(t, entryId) == \E c \in notifierCalls : c.tick = t /\ c.entry = entryId

Failures == {"error-ticket", "transport-error", "invalid-token"}

\* Tick t made a Notifier invocation for every Medication of its result
\* whose user has a push token and whose first entry at now is not taken.
PassComplete(t) ==
    LET list == tick[t].medicationsDue
    IN \A i \in 1..Len(list) : \A k \in 1..Len(list[i].schedules) :
          (/\ list[i].user.exists
           /\ Truthy(list[i].user.expoPushToken)
           /\ FirstAt(list[i], k, tick[t].currentTime)
           /\ ~list[i].schedules[k].taken)
          => CallFor(t, list[i].schedules[k].id)

\* The result list of tick t holds exactly the Medications with an entry at
\* its now.
QueryExact(t) ==
    LET list == tick[t].medicationsDue
    IN \A m \in MedIds :
          (\E k \in 1..Len(meds[m].schedules) :
              meds[m].schedules[k].time = tick[t].currentTime)
          <=> (\E i \in 1..Len(list) : list[i].id = m)

\* C1: over any sequence of ticks, two ticks reading the same minute
\* included, at most one Notifier invocation is made per Schedule Entry
\* per calendar day per matching minute.
C1_AtMostOneDispatchPerEntryDayMinute ==
    \A c1, c2 \in notifierCalls :
        (c1.entry = c2.entry /\ c1.day = c2.day /\ c1.scheduleTime = c2.scheduleTime)
        => c1 = c2

\* C2: when a tick's query succeeds, every entry that is untaken, at now,
\* and owned by a User with a valid push address gets a dispatch attempt
\* in that tick, whatever the other entries of its Medication are.
C2_EveryDueEntryDispatched ==
    \A t \in Ticks :
        Finished(t) =>
            LET list == tick[t].medicationsDue
            IN \A i \in 1..Len(list) : \A k \in 1..Len(list[i].schedules) :
                  (/\ DueAt(list[i], k, tick[t].currentTime)
                   /\ list[i].user.exists
                   /\ isExpoPushToken(list[i].user.expoPushToken))
                  => CallFor(t, list[i].schedules[k].id)

\* C3: an entry whose taken flag is true when the tick evaluates the store
\* gets no Notifier invocation from that tick, whether or not its time is
\* now; an entry that is taken throughout gets none at all.
C3_NoDispatchForTakenEntry ==
    /\ \A t \in Ticks :
          Evaluated(t) =>
              LET list == tick[t].medicationsDue
              IN \A i \in 1..Len(list) : \A k \in 1..Len(list[i].schedules) :
                    list[i].schedules[k].taken
                    => ~CallFor(t, list[i].schedules[k].id)
    /\ \A e \in AllEntries(meds) :
          e.id \notin wasUntaken => \A c \in notifierCalls : c.entry # e.id

\* An entry got a Notifier invocation from one tick, was then marked taken,
\* and a later tick at the same minute finished without one for it.
C3_Witness ==
    \E t1, t2 \in Ticks :
        /\ t1 < t2
        /\ Finished(t2)
        /\ LET list == tick[t2].medicationsDue
           IN \E i \in 1..Len(list) : \E k \in 1..Len(list[i].schedules) :
                 /\ list[i].schedules[k].taken
                 /\ list[i].schedules[k].time = tick[t2].currentTime
                 /\ Truthy(list[i].user.expoPushToken)
                 /\ CallFor(t1, list[i].schedules[k].id)
                 /\ ~CallFor(t2, list[i].schedules[k].id)

\* C4: for a Medication whose User has no push address (null or empty) a
\* tick makes no Notifier invocation, no transport call and leaves no
\* record but the warning, on every tick that meets it.
C4_NoDispatchWithoutPushAddress ==
    \A t \in Ticks :
        Evaluated(t) =>
            LET list == tick[t].medicationsDue
            IN \A i \in 1..Len(list) :
                  ~Truthy(list[i].user.expoPushToken) =>
                      /\ \A c \in notifierCalls : ~(c.tick = t /\ c.med = list[i].id)
                      /\ \A m \in transportCalls : ~(m.tick = t /\ m.med = list[i].id)
                      /\ \A o \in outcomes : ~(o.tick = t /\ o.med = list[i].id)
                      /\ (tick[t].pc = "done" \/ tick[t].idx > i)
                            => <<t, list[i].id>> \in warnings

\* Two finished ticks each met the Medication of a User with no push
\* address and only warned, and the later one dispatched for another
\* Medication.
C4_Witness ==
    \E t1, t2 \in Ticks, m \in MedIds :
        /\ t1 < t2
        /\ Finished(t1) /\ Finished(t2)
        /\ ~Truthy(users[meds[m].user].expoPushToken)
        /\ <<t1, m>> \in warnings /\ <<t2, m>> \in warnings
        /\ \E c \in notifierCalls : c.tick = t2 /\ c.med # m

\* C5: at any moment at most one evaluation-and-dispatch pass is in
\* progress.
C5_PassesNeverOverlap ==
    Cardinality({t \in Ticks : tick[t].pc \in {"find", "send"}}) <= 1

\* C6: a tick whose store query fails makes no dispatch attempt, the
\* process keeps running, and the following tick can start and evaluates
\* and dispatches as any tick does.
C6_FailedQuerySkipsTick ==
    \A t \in Ticks :
        tick[t].findFailed =>
            /\ tick[t].pc = "done"
            /\ alive
            /\ \A c \in notifierCalls : c.tick # t
            /\ \A m \in transportCalls : m.tick # t
            /\ \A o \in outcomes : o.tick # t
            /\ \A w \in warnings : w[1] # t
            /\ (t + 1 \in Ticks /\ tick[t + 1].pc = "idle")
                  => \E d \in 1..MaxDay, h \in ClockHours, m \in ClockMinutes :
                        ENABLED TickStart(t + 1, d, h, m)
            /\ (t + 1 \in Ticks /\ Finished(t + 1))
                  => QueryExact(t + 1) /\ PassComplete(t + 1)

\* A tick's query failed and the next tick finished with a dispatch.
C6_Witness ==
    \E t \in Ticks :
        /\ tick[t].findFailed
        /\ t + 1 \in Ticks
        /\ Finished(t + 1)
        /\ \E c \in notifierCalls : c.tick = t + 1

\* C7: when the Notifier fails for one due entry of a tick, every other
\* due entry of that tick still gets its dispatch attempt, and the process
\* keeps running.
C7_FailureIsolatedPerEntry ==
    \A t \in Ticks :
        (Finished(t) /\ \E o \in outcomes : o.tick = t /\ o.result \in Failures) =>
            /\ alive
            /\ LET list == tick[t].medicationsDue
               IN \A i \in 1..Len(list) : \A k \in 1..Len(list[i].schedules) :
                     (/\ DueAt(list[i], k, tick[t].currentTime)
                      /\ list[i].user.exists
                      /\ Truthy(list[i].user.expoPushToken))
                     => CallFor(t, list[i].schedules[k].id)

\* C8: a failed dispatch attempt is the only attempt for its entry at that
\* minute of that day, and on a later day a finished tick at the same
\* minute attempts the still-untaken entry again.
C8_FailedAttemptNotRetried ==
    \A o \in outcomes, c \in notifierCalls :
        (o.result \in Failures /\ c.tick = o.tick /\ c.med = o.med) =>
            /\ \A c2 \in notifierCalls :
                  (/\ c2.entry = c.entry
                   /\ c2.day = c.day
                   /\ c2.scheduleTime = c.scheduleTime)
                  => c2 = c
            /\ \A t \in Ticks :
                  (/\ Finished(t)
                   /\ tick[t].day > c.day
                   /\ tick[t].currentTime = c.scheduleTime)
                  => CallFor(t, c.entry)

\* C9: a Notifier invocation with a push address that is no valid push
\* token never reaches the transport, returns null without throwing, and
\* the tick goes on with the rest of its list.
C9_InvalidTokenSkipsTransport ==
    \A c \in notifierCalls :
        ~isExpoPushToken(c.to) =>
            /\ \A m \in transportCalls : ~(m.tick = c.tick /\ m.med = c.med)
            /\ \E o \in outcomes : o.tick = c.tick /\ o.med = c.med
            /\ \A o \in outcomes :
                  (o.tick = c.tick /\ o.med = c.med)
                  => o.result = "invalid-token" /\ o.returned = null
            /\ alive
            /\ ~tick[c.tick].findFailed
            /\ tick[c.tick].pc = "send"
                  => tick[c.tick].medicationsDue[tick[c.tick].idx].id # c.med
            /\ tick[c.tick].pc = "done" => PassComplete(c.tick)

\* A finished tick invoked the Notifier with an invalid token and, after
\* it, invoked it for another Medication, which reached the transport.
C9_Witness ==
    \E c1, c2 \in notifierCalls :
        /\ ~isExpoPushToken(c1.to)
        /\ c2.tick = c1.tick
        /\ c2.med # c1.med
        /\ Finished(c1.tick)
        /\ \E m \in transportCalls : m.tick = c2.tick /\ m.med = c2.med

\* A step of some run of the cron callback.
TickStep ==
    \E t \in Ticks :
        \/ \E d \in 1..MaxDay, h \in ClockHours, m \in ClockMinutes :
              TickStart(t, d, h, m)
        \/ FindResolves(t)
        \/ FindRejects(t)
        \/ SendSettles(t)

\* C10: no step of a tick, whatever the Notifier's outcome, changes a
\* Medication, an entry's taken flag, or a User's push address or sound
\* preference.
C10_TickLeavesStoreUnchanged == [][TickStep => UNCHANGED <<users, meds>>]_vars

\* After a PATCH a tick finished with an invalid-token outcome and a
\* delivered ticket.
C10_Witness ==
    \E t \in Ticks, o1, o2 \in outcomes :
        /\ patches > 0
        /\ Finished(t)
        /\ o1.tick = t /\ o1.result = "invalid-token"
        /\ o2.tick = t /\ o2.result = "ticket"

\* C11: missed ticks are never caught up.  Every Notifier invocation is
\* made by a tick whose query succeeded and whose now equals the time of
\* the entry it is for; an entry whose minute no tick evaluated on a day
\* gets no invocation on that day, at no later minute either.
C11_MissedTicksNeverCaughtUp ==
    /\ \A c \in notifierCalls :
          /\ \E e \in AllEntries(meds) : e.id = c.entry /\ e.time = c.scheduleTime
          /\ Evaluated(c.tick)
          /\ tick[c.tick].day = c.day
          /\ tick[c.tick].currentTime = c.scheduleTime
    /\ \A e \in AllEntries(meds) : \A d \in 1..MaxDay :
          (~\E t \in Ticks : /\ Evaluated(t)
                              /\ tick[t].day = d
                              /\ tick[t].currentTime = e.time)
          => ~\E c \in notifierCalls : c.entry = e.id /\ c.day = d

\* The query of the tick at 08:00 failed; the next tick, at 09:00 of the
\* same day, finished with a dispatch, and the untaken 08:00 entry of a
\* User with an Expo token has no Notifier invocation.
C11_Witness ==
    /\ tick[1].findFailed
    /\ tick[1].currentTime = FormatTime(8, 0)
    /\ Finished(2)
    /\ tick[2].day = tick[1].day
    /\ tick[2].currentTime = FormatTime(9, 0)
    /\ \E c \in notifierCalls : c.tick = 2
    /\ \E m \in MedIds : \E k \in 1..Len(meds[m].schedules) :
          /\ DueAt(meds[m], k, FormatTime(8, 0))
          /\ isExpoPushToken(users[meds[m].user].expoPushToken)
          /\ \A c \in notifierCalls : c.entry # meds[m].schedules[k].id

\* The User document that owns the Medication with this id.
OwnerOf(medicationId) == users[meds[medicationId].user]

\* Every Notifier invocation and every message is addressed to the push
\* address of the User who owns its Medication and to no other user's, and
\* the message's medicationId and scheduleTime are that Medication's id
\* and the tick's now, the time of the entry the invocation is for.
AddressedToOwner ==
    /\ \A c \in notifierCalls :
          /\ c.to = OwnerOf(c.med).expoPushToken
          /\ \A u \in UserIds : u # meds[c.med].user => c.to # users[u].expoPushToken
    /\ \A msg \in transportCalls :
          LET id == msg.data.medicationId
          IN /\ id \in MedIds
             /\ msg.to = OwnerOf(id).expoPushToken
             /\ \A u \in UserIds : u # meds[id].user => msg.to # users[u].expoPushToken
             /\ msg.data.scheduleTime = tick[msg.tick].currentTime
             /\ \E c \in notifierCalls :
                   /\ c.tick = msg.tick /\ c.med = id
                   /\ \E e \in AllEntries(meds) :
                         /\ e.id = c.entry
                         /\ e.id[1] = id
                         /\ e.time = msg.data.scheduleTime

\* C12 as stated: every dispatch goes to the push address of the User who
\* owns the Medication, never to another user's, and its payload is
\* { medicationId, scheduleTime }: the Medication's id and the tick's now.
C12_PayloadIsIdAndTime ==
    /\ AddressedToOwner
    /\ \A msg \in transportCalls :
          DOMAIN msg.data = {"medicationId", "scheduleTime"}

\* C12, amended: recipient, medicationId and scheduleTime as stated, and
\* the payload carries a third field, type, which is "medicationReminder".
C12_DispatchToOwnerWithPayload ==
    /\ AddressedToOwner
    /\ \A msg \in transportCalls :
          /\ DOMAIN msg.data = {"medicationId", "scheduleTime", "type"}
          /\ msg.data.type = "medicationReminder"

\* One tick handed the transport a message for each of the two Medications,
\* which are owned by different Users.
C12_Witness ==
    \E m1, m2 \in transportCalls :
        /\ m1.tick = m2.tick
        /\ m1.data.medicationId # m2.data.medicationId
        /\ m1.to # m2.to
        /\ Finished(m1.tick)

\* C13 as stated: the sound of a message is the owner's preference when
\* that is set and non-empty, "default" when it is unset, empty or blank,
\* and never empty or missing.
C13_SoundIsPreferenceOrDefault ==
    \A msg \in transportCalls :
        LET pref == OwnerOf(msg.data.medicationId).notificationSound
        IN /\ msg.sound = IF pref \in {null, "", " "} THEN "default" ELSE pref
           /\ msg.sound \notin {null, ""}

\* C13, amended: a preference that spells "default" in another letter
\* case also gives the literal "default".
C13_SoundIsPreferenceOrLiteralDefault ==
    \A msg \in transportCalls :
        LET pref == OwnerOf(msg.data.medicationId).notificationSound
        IN /\ msg.sound = IF pref \in {null, "", " ", "default", "Default"}
                          THEN "default" ELSE pref
           /\ msg.sound \notin {null, ""}

\* A message for a User whose preference is "Default" went out with the
\* sound "default" and got its ticket.
C13_Witness ==
    \E msg \in transportCalls :
        /\ OwnerOf(msg.data.medicationId).notificationSound = "Default"
        /\ msg.sound = "default"
        /\ \E o \in outcomes : o.tick = msg.tick /\ o.med = msg.med
                                /\ o.result = "ticket"

\* C14: a Medication at now whose owning User is gone gets no dispatch
\* attempt and leaves no record; no error is raised (the run is not cut
\* short and the process lives), and the tick processes the other
\* Medications at now.
C14_MissingUserSkipped ==
    \A t \in Ticks :
        Evaluated(t) =>
            LET list == tick[t].medicationsDue
            IN \A i \in 1..Len(list) :
                  ~list[i].user.exists =>
                      /\ \A c \in notifierCalls : ~(c.tick = t /\ c.med = list[i].id)
                      /\ \A m \in transportCalls : ~(m.tick = t /\ m.med = list[i].id)
                      /\ \A o \in outcomes : ~(o.tick = t /\ o.med = list[i].id)
                      /\ <<t, list[i].id>> \notin warnings
                      /\ alive
                      /\ Finished(t) => PassComplete(t) /\ QueryExact(t)

\* A finished tick had a Medication of a deleted User first in its result
\* and dispatched for the Medication after it.
C14_Witness ==
    \E t \in Ticks :
        /\ Finished(t)
        /\ Len(tick[t].medicationsDue) = 2
        /\ ~tick[t].medicationsDue[1].user.exists
        /\ \E c \in notifierCalls : c.tick = t /\ c.med = tick[t].medicationsDue[2].id
        /\ \E o \in outcomes : o.tick = t /\ o.med = tick[t].medicationsDue[2].id

\* The entries of the result of tick t that are due: at its now, not taken.
DueSet(t) ==
    LET list == tick[t].medicationsDue
    IN UNION {{list[i].schedules[k].id : k \in {j \in 1..Len(list[i].schedules) :
                                              DueAt(list[i], j, tick[t].currentTime)}}
              : i \in 1..Len(list)}

\* Two evaluations for the same now over the same store agree: the same
\* result, the same due set and, once both ticks finished, Notifier
\* invocations for the same entries.
SameNowSameDue ==
    \A t1, t2 \in Ticks :
        (Evaluated(t1) /\ Evaluated(t2) /\ tick[t1].currentTime = tick[t2].currentTime)
        => /\ tick[t1].medicationsDue = tick[t2].medicationsDue
           /\ DueSet(t1) = DueSet(t2)
           /\ (Finished(t1) /\ Finished(t2))
                 => {c.entry : c \in {x \in notifierCalls : x.tick = t1}}
                    = {c.entry : c \in {x \in notifierCalls : x.tick = t2}}

TwoDigits(n) == IF n < 10 THEN "0" \o ToString(n) ELSE ToString(n)
ClockValues ==
    {h \o ":" \o TwoDigits(m) :
        h \in {ToString(x) : x \in 0..23} \cup {TwoDigits(x) : x \in 0..23},
        m \in 0..59}

\* The step serves a request of this kind.
Serves(op) ==
    /\ request'.op = op
    /\ requests' # requests \/ patches' # patches

\* The request the step serves carries a schedules array with an entry
\* whose time is missing or no clock value.
CarriesInvalidTime ==
    /\ request'.body.schedules.kind = "array"
    /\ \E i \in 1..Len(request'.body.schedules.items) :
          request'.body.schedules.items[i].time \notin ClockValues

\* The request the step serves names a Medication that exists before it.
OnMedication == request'.id \in MedIds /\ meds[request'.id] # NoMedication

\* The request the step serves names a Medication of the caller's.
OnOwnMedication == OnMedication /\ meds[request'.id].user = request'.caller

\* The request the step serves names a Medication of another user's.
OnOthersMedication == OnMedication /\ meds[request'.id].user # request'.caller

\* Every Schedule Entry of the store has a clock value as its time.
AllTimesValid == \A e \in AllEntries(meds) : e.time \in ClockValues

\* C15: through any sequence of create (POST) and update (PUT) requests
\* every Schedule Entry of the store has a valid 24-hour clock value as its
\* time; a create, or an update of the caller's Medication, that carries
\* an entry with a missing or invalid time is answered 400, and no request
\* that carries one stores anything.
C15_StoredTimesAreClockValues ==
    /\ []AllTimesValid
    /\ [][((Serves("POST") \/ Serves("PUT")) /\ CarriesInvalidTime)
           => /\ meds' = meds
              /\ response'.status \in {400, 401, 404}
              /\ (Serves("POST") \/ OnOwnMedication) => response'.status = 400]_vars

\* A Medication created by a POST holds the entries of the request, and
\* the update of it that carries an entry at "24:00" has been answered 400.
C15_Witness ==
    /\ requests = 2
    /\ request.op = "PUT"
    /\ request.id = "m2"
    /\ response.status = 400
    /\ \E i \in 1..Len(request.body.schedules.items) :
          request.body.schedules.items[i].time = "24:00"
    /\ meds["m2"].user = request.caller
    /\ meds["m2"].name = "Ibuprofen"
    /\ Len(meds["m2"].schedules) = 2
    /\ meds["m2"].schedules[2].time = "8:00"

\* What every request on a Medication of another user's does, whatever
\* its answer: nothing of the store changes and no document is returned;
\* and the list holds the caller's Medications and no other.
OthersMedicationUntouched ==
    /\ ((Serves("GET") \/ Serves("PUT") \/ Serves("DELETE") \/ Serves("PATCH"))
         /\ OnOthersMedication)
        => /\ UNCHANGED <<users, meds>>
           /\ response'.body = {}
    /\ Serves("LIST")
        => response'.body =
              {<<m, meds[m]>> : m \in {x \in MedIds : meds[x] # NoMedication
                                                      /\ meds[x].user = request'.caller}}

\* C19 as stated: a GET, PUT, DELETE or PATCH on a Medication by a User
\* who does not own it is answered 401 or 404 and leaves the store
\* unchanged, and the list returns only the caller's own Medications.
C19_OnlyOwnerWith401Or404 ==
    [][/\ OthersMedicationUntouched
       /\ ((Serves("GET") \/ Serves("PUT") \/ Serves("DELETE") \/ Serves("PATCH"))
            /\ OnOthersMedication)
           => response'.status \in {401, 404}]_vars

\* C19, amended: the answer is 401 or 404, or 400 for a PATCH whose taken
\* is no boolean.
C19_OnlyOwner ==
    [][/\ OthersMedicationUntouched
       /\ ((Serves("GET") \/ Serves("PUT") \/ Serves("DELETE") \/ Serves("PATCH"))
            /\ OnOthersMedication)
           => IF Serves("PATCH") /\ request'.body.taken.type # "boolean"
              THEN response'.status = 400
              ELSE response'.status \in {401, 404}]_vars

\* A DELETE by a user who does not own the Medication has been answered
\* 401 and the Medication is still there.
C19_Witness ==
    /\ request.op = "DELETE"
    /\ request.id \in MedIds
    /\ response.status = 401
    /\ meds[request.id] # NoMedication
    /\ meds[request.id].user # request.caller

\* C20: a PUT by the owner of a Medication that carries a schedules array
\* with a missing or invalid time is answered 400 and leaves the stored
\* Medication as it was, its name, amount and precautions included, also
\* when the request gives new values for them.
C20_RejectedPutChangesNothing ==
    [][(Serves("PUT") /\ OnOwnMedication /\ CarriesInvalidTime)
       => /\ response'.status = 400
          /\ meds'[request'.id] = meds[request'.id]
          /\ meds' = meds]_vars

\* A PUT by the owner gave a new name, amount and precautions and an
\* array whose second time is missing; it has been answered 400 and the
\* Medication has its old name and its old entry.
C20_Witness ==
    /\ request.op = "PUT"
    /\ request.id = "m1"
    /\ request.caller = meds["m1"].user
    /\ request.body.name = "Ibuprofen"
    /\ request.body.amount = "200mg"
    /\ request.body.precautions = "with food"
    /\ Len(request.body.schedules.items) = 2
    /\ request.body.schedules.items[1].time = "08:00"
    /\ request.body.schedules.items[2].time = null
    /\ response.status = 400
    /\ meds["m1"].name = "Aspirin"
    /\ meds["m1"].amount = "500mg"
    /\ Len(meds["m1"].schedules) = 1

\* The time text stands for hour h and minute m of the 24-hour clock.
Denotes(time, h, m) ==
    time \in {ToString(h) \o ":" \o TwoDigits(m), TwoDigits(h) \o ":" \o TwoDigits(m)}

\* C17: every time the create/update validation accepts is met by the
\* evaluator: a finished tick whose clock reading is the hour and minute
\* an entry's time stands for makes a Notifier invocation for the entry,
\* if it is untaken and its owner has a valid push address.
C17_AcceptedTimeIsDispatched ==
    \A t \in Ticks :
        Finished(t) =>
            \A m \in MedIds : \A k \in 1..Len(meds[m].schedules) :
                (/\ ~meds[m].schedules[k].taken
                 /\ isExpoPushToken(OwnerOf(m).expoPushToken)
                 /\ \E h \in ClockHours, mi \in ClockMinutes :
                       /\ tick[t].currentTime = FormatTime(h, mi)
                       /\ Denotes(meds[m].schedules[k].time, h, mi))
                => CallFor(t, meds[m].schedules[k].id)

\* C18: under any interleaving of a tick with PATCH requests, every
\* Notifier invocation is for an entry whose taken flag is false in the
\* store at the moment of the invocation: none is made for an entry after
\* the PATCH that marks it taken has been committed.
C18_NoDispatchAfterPatchCommitted ==
    [][\A c \in notifierCalls' \ notifierCalls :
          \A e \in AllEntries(meds) : e.id = c.entry => ~e.taken]_vars

\* The PATCH the step serves names an entry the Medication has before it.
OnKnownEntry ==
    /\ OnMedication
    /\ \E k \in 1..Len(meds[request'.id].schedules) :
          meds[request'.id].schedules[k].id = request'.body.scheduleId

\* C21: a PATCH that succeeds sets the taken flag of exactly the entry
\* named by scheduleId to the boolean of the request and leaves every
\* other entry of the Medication, the entry's time, the rest of the
\* document and every other Medication as they were; a PATCH with a taken
\* that is no boolean, an unknown Medication or an unknown schedule id is
\* not answered 200 and changes nothing; any other PATCH succeeds.
C21_PatchSetsOneFlag ==
    [][Serves("PATCH") =>
          LET id == request'.id
              wanted == request'.body.taken
              wellFormed == /\ wanted.type = "boolean"
                            /\ OnOwnMedication
                            /\ OnKnownEntry
          IN /\ users' = users
             /\ response'.status = 200 <=> wellFormed
             /\ ~wellFormed => meds' = meds
             /\ wellFormed =>
                   LET old == meds[id].schedules
                       new == meds'[id].schedules
                   IN /\ Len(new) = Len(old)
                      /\ \A k \in 1..Len(old) :
                            /\ new[k].id = old[k].id
                            /\ new[k].time = old[k].time
                            /\ new[k].taken =
                                  IF old[k].id = request'.body.scheduleId
                                  THEN wanted.bool ELSE old[k].taken
                      /\ [meds'[id] EXCEPT !.schedules = old] = meds[id]
                      /\ \A m \in MedIds \ {id} : meds'[m] = meds[m]]_vars

\* A PATCH has marked the second of the two entries of a Medication taken;
\* its first entry is untaken and the other user's Medication is in the
\* store.
C21_Witness ==
    /\ request.op = "PATCH"
    /\ response.status = 200
    /\ request.id \in MedIds
    /\ request.body.scheduleId = <<request.id, 2>>
    /\ request.body.taken = Bool(TRUE)
    /\ Len(meds[request.id].schedules) = 2
    /\ ~meds[request.id].schedules[1].taken
    /\ meds[request.id].schedules[2].taken
    /\ \E m \in MedIds : m # request.id /\ meds[m] # NoMedication

====
